---- MODULE Spec2Model ----
(***************************************************************************)
(* Invoice calculation and merge engine of the AshapuriCRM backend.        *)
(*                                                                         *)
(* Money is carried exactly, each field in its own fixed unit, so that     *)
(* the percentages of the source (0.13, 0.0325, 0.09, rate/100, the        *)
(* overtime multiplier) stay integers:                                     *)
(*   baseTotal, roundOffSubTotal, grandTotal   rupees                      *)
(*   overtimeAmount                            1/2 rupee                   *)
(*   pf, bonus                                 1/200 rupee                 *)
(*   esic                                      1/800 rupee                 *)
(*   serviceCharge, totalBeforeTax             1/100 rupee                 *)
(*   cgst, sgst, gstAmount                     1/10000 rupee               *)
(*   salary                                    1/20000 rupee               *)
(* The overtime multiplier is carried in halves (3 stands for 1.5).        *)
(***************************************************************************)
EXTENDS Integers, Sequences, FiniteSets, TLC

VARIABLES
    calcInput,   \* the attendance batch and rate configuration of a calculation
    calcResult,  \* <<>> or <<the calculation's result>>
    calcPrev,    \* <<>> or <<the result of the previous calculation>>
    clients,     \* the clients that issue requests (each runs one handler at a time)
    companies,   \* the Company collection: the ids of the stored companies
    invoices,    \* the Invoice collection: _id -> document
    nextId,      \* the next fresh _id
    cloud,       \* the public ids of the files held by the storage service
    salarySlips, \* the SalarySlip collection: _id -> document
    req          \* per client: the handler it runs, where it stands, its locals

vars == <<calcInput, calcResult, calcPrev, clients, companies, invoices, nextId, cloud,
          salarySlips, req>>

calcVars == <<calcInput, calcResult, calcPrev>>
storeVars == <<clients, companies, invoices, nextId, cloud, salarySlips, req>>

-----------------------------------------------------------------------------
\* Bounds of the model

MaxEmployees == 2
MaxDays == 6
MaxInvoices == 3
MaxMergeIds == 2
MaxMantissa == 300
MaxExponent == 5
MaxRows == 2
MaxSlips == 2

-----------------------------------------------------------------------------
\* Program constants

DefaultPerDayRate == 466
DefaultServiceChargeRate == 7
DefaultOvertimeRate2 == 3

\* Math.max() of an empty argument list is -Infinity
NegInfinity == 0 - 1000000

-----------------------------------------------------------------------------
\* Helpers

RECURSIVE Sum(_)
Sum(s) == IF s = <<>> THEN 0 ELSE Head(s) + Sum(Tail(s))

MathMax(S) == IF S = {} THEN NegInfinity ELSE CHOOSE m \in S : \A x \in S : x <= m

\* the elements of a set of numbers in increasing order
RECURSIVE SortedSeq(_)
SortedSeq(S) ==
    IF S = {} THEN <<>>
    ELSE LET m == CHOOSE x \in S : \A y \in S : x <= y
         IN <<m>> \o SortedSeq(S \ {m})

\* Math.round(n/d) for d > 0: the nearest integer, halves rounded up
MathRound(n, d) == (2 * n + d) \div (2 * d)

-----------------------------------------------------------------------------
\* createInvoice: the calculation

getOvertimeThreshold(totalDays) == totalDays - 4

workingDaysInMonth(attendanceData) ==
    MathMax({attendanceData[i].total_day : i \in DOMAIN attendanceData})

\* AggregateDays with the overtime branch forgetting the regular days
AggregateDays_DropsRegular(attendanceData, overtimeThreshold) ==
    LET reg(emp) == IF emp.present_day > overtimeThreshold
                    THEN 0 ELSE emp.present_day
        ot(emp)  == IF emp.present_day > overtimeThreshold
                    THEN emp.present_day - overtimeThreshold ELSE 0
    IN [regularDays  |-> Sum([i \in DOMAIN attendanceData |-> reg(attendanceData[i])]),
        overtimeDays |-> Sum([i \in DOMAIN attendanceData |-> ot(attendanceData[i])])]

\* the forEach over attendanceData that accumulates regularDays / overtimeDays
AggregateDays(attendanceData, overtimeThreshold) ==
    LET reg(emp) == IF emp.present_day > overtimeThreshold
                    THEN overtimeThreshold ELSE emp.present_day
        ot(emp)  == IF emp.present_day > overtimeThreshold
                    THEN emp.present_day - overtimeThreshold ELSE 0
    IN [regularDays  |-> Sum([i \in DOMAIN attendanceData |-> reg(attendanceData[i])]),
        overtimeDays |-> Sum([i \in DOMAIN attendanceData |-> ot(attendanceData[i])])]

\* GrandTotal with the tax added whoever pays it
GrandTotal_AlwaysTaxed(gstPaidBy, totalBeforeTax, cgst, sgst) ==
    MathRound(100 * totalBeforeTax + cgst + sgst, 10000)

GrandTotal(gstPaidBy, totalBeforeTax, cgst, sgst) ==
    IF gstPaidBy = "ashapuri"
    THEN MathRound(100 * totalBeforeTax + cgst + sgst, 10000)
    ELSE MathRound(totalBeforeTax, 100)

\* the fallback branch (no calculatedValues in the request)
FallbackCalculation(attendanceData, gstPaidBy, serviceChargeRate, bonusRate, overtimeRate2) ==
    LET overtimeThreshold == getOvertimeThreshold(workingDaysInMonth(attendanceData))
        days == AggregateDays(attendanceData, overtimeThreshold)
        perDayRate == 466
        baseTotal == days.regularDays * perDayRate
        overtimeAmount == days.overtimeDays * perDayRate * overtimeRate2
        totalBeforeStatutory == 2 * baseTotal + overtimeAmount      \* 1/2 rupee
        pf == totalBeforeStatutory * 13                             \* 1/200
        esic == totalBeforeStatutory * 13                           \* 1/800
        bonus == totalBeforeStatutory * bonusRate                   \* 1/200
        subTotal == 400 * totalBeforeStatutory + 4 * pf + esic + 4 * bonus  \* 1/800
        roundOffSubTotal == MathRound(subTotal, 800)
        serviceCharge == roundOffSubTotal * serviceChargeRate       \* 1/100
        totalBeforeTax == 100 * roundOffSubTotal + serviceCharge    \* 1/100
        cgst == totalBeforeTax * 9                                  \* 1/10000
        sgst == totalBeforeTax * 9
    IN [totalEmployees     |-> Len(attendanceData),
        totalPresentDays   |-> days.regularDays,
        totalOvertimeDays  |-> days.overtimeDays,
        baseTotal          |-> baseTotal,
        overtimeAmount     |-> overtimeAmount,
        serviceChargeTotal |-> serviceCharge,
        pf                 |-> pf,
        esic               |-> esic,
        bonus              |-> bonus,
        roundOffSubTotal   |-> roundOffSubTotal,
        totalBeforeTax     |-> totalBeforeTax,
        cgst               |-> cgst,
        sgst               |-> sgst,
        grandTotal         |-> GrandTotal(gstPaidBy, totalBeforeTax, cgst, sgst)]

\* processedEmployees with the regular days left uncapped
processedEmployees_Uncapped(attendanceData, perDayRate, overtimeRate2) ==
    LET overtimeThreshold == getOvertimeThreshold(workingDaysInMonth(attendanceData))
        one(employee) ==
            LET presentDay == employee.present_day
                over == presentDay > overtimeThreshold
                empOvertimeDays == IF over THEN presentDay - overtimeThreshold ELSE 0
                gross == 2 * presentDay * perDayRate
                         + empOvertimeDays * perDayRate * overtimeRate2
            IN [name         |-> employee.name,
                presentDays  |-> presentDay,
                regularDays  |-> presentDay,
                overtimeDays |-> empOvertimeDays,
                totalDays    |-> employee.total_day,
                salary       |-> gross * 8725]
    IN [i \in DOMAIN attendanceData |-> one(attendanceData[i])]

\* attendanceData.map(...): the per-employee overtime breakdown and net salary
processedEmployees(attendanceData, perDayRate, overtimeRate2) ==
    LET overtimeThreshold == getOvertimeThreshold(workingDaysInMonth(attendanceData))
        one(employee) ==
            LET presentDay == employee.present_day
                over == presentDay > overtimeThreshold
                empRegularDays == IF over THEN overtimeThreshold ELSE presentDay
                empOvertimeDays == IF over THEN presentDay - overtimeThreshold ELSE 0
                gross == 2 * empRegularDays * perDayRate
                         + empOvertimeDays * perDayRate * overtimeRate2  \* 1/2 rupee
            IN [name         |-> employee.name,
                presentDays  |-> presentDay,
                regularDays  |-> empRegularDays,
                overtimeDays |-> empOvertimeDays,
                totalDays    |-> employee.total_day,
                salary       |-> gross * 8725]      \* gross - (12% + 0.75%), 1/20000
    IN [i \in DOMAIN attendanceData |-> one(attendanceData[i])]

-----------------------------------------------------------------------------
\* The other calculations of invoice totals

\* the fallback branch of createInvoice in invoiceController.js: no overtime,
\* no bonus
FallbackCalculationV2(attendanceData, gstPaidBy, serviceChargeRate) ==
    LET totalPresentDays ==
            Sum([i \in DOMAIN attendanceData |-> attendanceData[i].present_day])
        baseTotal == totalPresentDays * 466
        serviceCharge == baseTotal * serviceChargeRate              \* 1/100
        pf == baseTotal * 13                                        \* 1/100
        esic == baseTotal * 325                                     \* 1/10000
        subTotal == 10000 * baseTotal + 100 * pf + esic             \* 1/10000
        roundOffSubTotal == MathRound(subTotal, 10000)
        totalBeforeTax == 100 * roundOffSubTotal + serviceCharge    \* 1/100
        cgst == totalBeforeTax * 9                                  \* 1/10000
        sgst == totalBeforeTax * 9
    IN [totalEmployees     |-> Len(attendanceData),
        totalPresentDays   |-> totalPresentDays,
        baseTotal          |-> baseTotal,
        serviceChargeTotal |-> serviceCharge,
        pf                 |-> pf,
        esic               |-> esic,
        roundOffSubTotal   |-> roundOffSubTotal,
        totalBeforeTax     |-> totalBeforeTax,
        cgst               |-> cgst,
        sgst               |-> sgst,
        grandTotal         |-> GrandTotal(gstPaidBy, totalBeforeTax, cgst, sgst)]

\* calculateInvoiceTotals of utils/invoiceCalculations.js, with the rates of
\* TAX_RATES.  Of the returned object, esicAmount, subTotal and
\* roundOffDifference (fractions of a paisa cut by toFixed(2)) and
\* grandTotalInWords are left out.
calculateInvoiceTotals(totalPresentDays, perDayRate, taxType) ==
    LET baseTotal == totalPresentDays * perDayRate
        serviceCharge == baseTotal * 7                              \* 1/100
        pf == baseTotal * 13                                        \* 1/100
        esic == baseTotal * 325                                     \* 1/10000
        subTotal == 10000 * baseTotal + 100 * pf + esic             \* 1/10000
        roundOffSubTotal == MathRound(subTotal, 10000)
        totalBeforeTax == 100 * roundOffSubTotal + serviceCharge    \* 1/100
        taxBreakdown ==
            IF taxType = "gst"
            THEN [cgst |-> totalBeforeTax * 9, sgst |-> totalBeforeTax * 9,
                  totalTax |-> totalBeforeTax * 18]                 \* 1/10000
            ELSE [igst |-> totalBeforeTax * 18, totalTax |-> totalBeforeTax * 18]
        grandTotal == MathRound(100 * totalBeforeTax + taxBreakdown.totalTax, 10000)
    IN [baseAmount        |-> baseTotal,
        serviceCharge     |-> serviceCharge,
        pfAmount          |-> pf,
        roundOffAmount    |-> roundOffSubTotal,
        totalBeforeTax    |-> totalBeforeTax,
        taxBreakdown      |-> taxBreakdown,
        grandTotal        |-> grandTotal]

-----------------------------------------------------------------------------
\* The calculation on its own: inputs drawn from bounded sets

TotalDayValues == {0, 4, MaxDays}

Employees == [name : {"emp"}, present_day : 0..MaxDays, total_day : TotalDayValues]

Batches == UNION {[1..n -> Employees] : n \in 0..MaxEmployees}

GstPaidByValues == {"principal-employer", "ashapuri"}
ServiceChargeRates == {0, DefaultServiceChargeRate}
BonusRates == {0, 8}
OvertimeRates2 == {0, 2, DefaultOvertimeRate2}

CalcInputs == [attendanceData : Batches, gstPaidBy : GstPaidByValues,
               serviceChargeRate : ServiceChargeRates, bonusRate : BonusRates,
               overtimeRate2 : OvertimeRates2]

TaxTypes == {"gst", "igst"}

\* a batch as a request writes it under one naming of the day fields: a
\* field is <<>> when the record does not have it
Written(attendanceData, naming) ==
    [i \in DOMAIN attendanceData |->
        IF naming = "present_day"
        THEN [name |-> attendanceData[i].name,
              present_day |-> <<attendanceData[i].present_day>>,
              total_day |-> <<attendanceData[i].total_day>>,
              presentDays |-> <<>>, totalDays |-> <<>>]
        ELSE [name |-> attendanceData[i].name,
              present_day |-> <<>>, total_day |-> <<>>,
              presentDays |-> <<attendanceData[i].present_day>>,
              totalDays |-> <<attendanceData[i].total_day>>]]

\* the batch as createInvoice reads it: emp.present_day || 0 and
\* emp.total_day || 0
AsRead(written) ==
    [i \in DOMAIN written |->
        [name |-> written[i].name,
         present_day |-> IF written[i].present_day # <<>> THEN written[i].present_day[1]
                         ELSE 0,
         total_day |-> IF written[i].total_day # <<>> THEN written[i].total_day[1] ELSE 0]]

\* one batch under each calculation of the repository
Calculation(in) ==
    [calc |-> FallbackCalculation(in.attendanceData, in.gstPaidBy, in.serviceChargeRate,
                                  in.bonusRate, in.overtimeRate2),
     employees |-> processedEmployees(in.attendanceData, DefaultPerDayRate, in.overtimeRate2),
     calcV2 |-> FallbackCalculationV2(in.attendanceData, in.gstPaidBy, in.serviceChargeRate),
     totals |-> [taxType \in TaxTypes |->
                    calculateInvoiceTotals(
                        Sum([i \in DOMAIN in.attendanceData |->
                                in.attendanceData[i].present_day]),
                        DefaultPerDayRate, taxType)],
     camelCase |->
        LET attendanceData == AsRead(Written(in.attendanceData, "presentDays"))
        IN [calc |-> FallbackCalculation(attendanceData, in.gstPaidBy, in.serviceChargeRate,
                                         in.bonusRate, in.overtimeRate2),
            employees |-> processedEmployees(attendanceData, DefaultPerDayRate,
                                             in.overtimeRate2)]]

NoRequest == [op |-> "none", pc |-> "idle"]

InitCalc ==
    /\ calcInput \in CalcInputs
    /\ calcResult = <<>>
    /\ calcPrev = <<>>
    /\ clients = {}
    /\ companies = {}
    /\ invoices = <<>>
    /\ nextId = 1
    /\ cloud = {}
    /\ salarySlips = <<>>
    /\ req = <<>>

Calculate ==
    /\ calcResult = <<>>
    /\ calcResult' = <<Calculation(calcInput)>>
    /\ UNCHANGED <<calcInput, calcPrev>>
    /\ UNCHANGED storeVars

\* the same batch with one more present day for one employee, calculated again
IncreasePresentDays ==
    /\ calcResult # <<>>
    /\ \E i \in DOMAIN calcInput.attendanceData :
          /\ calcInput.attendanceData[i].present_day < MaxDays
          /\ calcInput' = [calcInput EXCEPT !.attendanceData[i].present_day = @ + 1]
    /\ calcPrev' = calcResult
    /\ calcResult' = <<Calculation(calcInput')>>
    /\ UNCHANGED storeVars

NextCalc == Calculate \/ IncreasePresentDays

SpecCalc == InitCalc /\ [][NextCalc]_vars

-----------------------------------------------------------------------------
\* numberToWords: the text is carried as the sequence of its words

units == <<"ONE", "TWO", "THREE", "FOUR", "FIVE", "SIX", "SEVEN", "EIGHT", "NINE">>
teens == <<"TEN", "ELEVEN", "TWELVE", "THIRTEEN", "FOURTEEN", "FIFTEEN", "SIXTEEN",
           "SEVENTEEN", "EIGHTEEN", "NINETEEN">>
tens == <<"", "TWENTY", "THIRTY", "FORTY", "FIFTY", "SIXTY", "SEVENTY", "EIGHTY",
          "NINETY">>

\* thousands[place] for place >= 1; beyond the array the template prints
\* "undefined"
thousands(place) ==
    IF place = 1 THEN "THOUSAND"
    ELSE IF place = 2 THEN "LAKH"
    ELSE IF place = 3 THEN "CRORE"
    ELSE "UNDEFINED"

convertLessThanThousand(n) ==
    LET lessThanHundred(m) ==
            IF m = 0 THEN <<>>
            ELSE IF m < 10 THEN <<units[m]>>
            ELSE IF m < 20 THEN <<teens[m - 9]>>
            ELSE <<tens[m \div 10]>> \o (IF m % 10 = 0 THEN <<>> ELSE <<units[m % 10]>>)
    IN IF n < 100 THEN lessThanHundred(n)
       ELSE <<units[n \div 100], "HUNDRED">> \o lessThanHundred(n % 100)

\* the while loop: one group of three digits per pass, the lowest first
RECURSIVE Groups(_, _)
Groups(num, place) ==
    IF num = 0 THEN <<>>
    ELSE LET part == IF num % 1000 = 0 THEN <<>>
                     ELSE convertLessThanThousand(num % 1000)
                          \o (IF place > 0 THEN <<thousands(place)>> ELSE <<>>)
         IN Groups(num \div 1000, place + 1) \o part

numberToWords(num) ==
    IF num = 0 THEN <<"Zero", "Rupees", "Only">>
    ELSE Groups(num, 0) \o <<"RUPEES", "ONLY">>

\* the amounts put into words: m * 10^e
RECURSIVE Power10(_)
Power10(e) == IF e = 0 THEN 1 ELSE 10 * Power10(e - 1)

WordInputs == {m * Power10(e) : m \in 0..MaxMantissa, e \in 0..MaxExponent}

InitWords ==
    /\ calcInput \in WordInputs
    /\ calcResult = <<>>
    /\ calcPrev = <<>>
    /\ clients = {}
    /\ companies = {}
    /\ invoices = <<>>
    /\ nextId = 1
    /\ cloud = {}
    /\ salarySlips = <<>>
    /\ req = <<>>

ConvertToWords ==
    /\ calcResult = <<>>
    /\ calcResult' = <<numberToWords(calcInput)>>
    /\ UNCHANGED <<calcInput, calcPrev>>
    /\ UNCHANGED storeVars

SpecWords == InitWords /\ [][ConvertToWords]_vars

-----------------------------------------------------------------------------
\* normalizeExtractedData: a field of a raw entry is <<>> when the entry does
\* not have it, <<value>> otherwise

RawEntry(isObject, name, employee_name, present_day, presentDays, total_day, totalDays) ==
    [isObject |-> isObject, id |-> <<>>, name |-> name, employee_name |-> employee_name,
     present_day |-> present_day, presentDays |-> presentDays, days_present |-> <<>>,
     total_day |-> total_day, totalDays |-> totalDays, days_total |-> <<>>]

\* the entries of the extracted array: null, and objects with either naming
\* of the day fields, present, absent, zero or negative
RawEntries ==
    {RawEntry(FALSE, <<>>, <<>>, <<>>, <<>>, <<>>, <<>>)}
    \cup {RawEntry(TRUE, name, employee_name, present_day, presentDays, total_day, totalDays) :
            name \in {<<>>, <<"">>, <<"emp">>}, employee_name \in {<<>>, <<"alt">>},
            present_day \in {<<>>, <<3>>, <<0 - 1>>}, presentDays \in {<<>>, <<2>>},
            total_day \in {<<>>, <<0>>, <<MaxDays>>, <<0 - 2>>}, totalDays \in {<<>>, <<5>>}}

RawData ==
    {[isArray |-> FALSE, entries |-> <<>>]}
    \cup {[isArray |-> TRUE, entries |-> entries] :
            entries \in UNION {[1..n -> RawEntries] : n \in 0..MaxRows}}

\* a || b || c || d for numbers
OrNumber(a, b, c, d) ==
    IF a # <<>> /\ a[1] # 0 THEN a[1]
    ELSE IF b # <<>> /\ b[1] # 0 THEN b[1]
    ELSE IF c # <<>> /\ c[1] # 0 THEN c[1]
    ELSE d

\* the map callback; attendanceRate in tenths of a percent
normalized(entry, index) ==
    LET name == IF entry.name # <<>> /\ entry.name[1] # "" THEN entry.name
                ELSE IF entry.employee_name # <<>> /\ entry.employee_name[1] # ""
                THEN entry.employee_name
                ELSE <<"Employee", index + 1>>
        presentDays == OrNumber(entry.present_day, entry.presentDays, entry.days_present, 0)
        totalDays == OrNumber(entry.total_day, entry.totalDays, entry.days_total, 30)
    IN [id             |-> IF entry.id # <<>> THEN entry.id ELSE <<"emp", index + 1>>,
        name           |-> name,
        presentDays    |-> presentDays,
        totalDays      |-> totalDays,
        absentDays     |-> totalDays - presentDays,
        attendanceRate |-> IF totalDays > 0 THEN MathRound(presentDays * 1000, totalDays)
                           ELSE 0,
        isValid        |-> name # <<"">> /\ presentDays >= 0 /\ totalDays > 0]

\* the result, or the TypeError of reading a property of null
normalizeExtractedData(rawData) ==
    IF ~rawData.isArray THEN [threw |-> FALSE, entries |-> <<>>]
    ELSE IF \E i \in DOMAIN rawData.entries : ~rawData.entries[i].isObject
    THEN [threw |-> TRUE, entries |-> <<>>]
    ELSE LET mapped == [i \in DOMAIN rawData.entries |->
                           normalized(rawData.entries[i], i - 1)]
             valid(entry) == entry.isValid
         IN [threw |-> FALSE, entries |-> SelectSeq(mapped, valid)]

InitNormalize ==
    /\ calcInput \in RawData
    /\ calcResult = <<>>
    /\ calcPrev = <<>>
    /\ clients = {}
    /\ companies = {}
    /\ invoices = <<>>
    /\ nextId = 1
    /\ cloud = {}
    /\ salarySlips = <<>>
    /\ req = <<>>

Normalize ==
    /\ calcResult = <<>>
    /\ calcResult' = <<normalizeExtractedData(calcInput)>>
    /\ UNCHANGED <<calcInput, calcPrev>>
    /\ UNCHANGED storeVars

SpecNormalize == InitNormalize /\ [][Normalize]_vars

-----------------------------------------------------------------------------
\* The Invoice collection.  The controllers write and read back isMerged,
\* sourceInvoices, mergedCompanies, bonusRate, overtimeRate, bonusAmount,
\* overtimeAmount, totalOvertimeDays, regularDays, overtimeDays and
\* cloudinaryPublicId; the documents keep them as written.  Invoice.js gives the
\* unique index on invoiceNumber, the defaults and the validators.

Response(status, error) == [status |-> status, error |-> error, pdfGenerated |-> FALSE]

IsError(response) == response.status >= 400

Free(c) == req[c].pc \in {"idle", "done"}

Finish(c, op, body, response) ==
    req' = [req EXCEPT ![c] = [op |-> op, pc |-> "done", body |-> body,
                               response |-> response]]

\* the validators of invoiceSchema (required, min, max)
Validate(doc) ==
    /\ doc.serviceChargeRate >= 0 /\ doc.serviceChargeRate <= 100
    /\ doc.billDetails.baseAmount >= 0
    /\ doc.billDetails.serviceCharge >= 0
    /\ doc.billDetails.pfAmount >= 0
    /\ doc.billDetails.esicAmount >= 0
    /\ doc.billDetails.gstAmount >= 0
    /\ doc.billDetails.totalAmount >= 0
    /\ doc.attendanceData.totalEmployees >= 0
    /\ doc.attendanceData.totalPresentDays >= 0
    /\ doc.attendanceData.perDayRate >= 0
    /\ doc.attendanceData.workingDays >= 0
    /\ \A i \in DOMAIN doc.extractedEmployees :
          /\ doc.extractedEmployees[i].presentDays >= 0
          /\ doc.extractedEmployees[i].totalDays >= 0
          /\ doc.extractedEmployees[i].salary >= 0

InvoiceNumbers == {invoices[i].invoiceNumber : i \in DOMAIN invoices}

\* document.save() of a new document: validation, then the insert under the
\* unique index on invoiceNumber.  "" when it succeeds, else the error.
SaveError(doc, dbOk) ==
    IF ~Validate(doc) THEN "Invoice validation failed"
    ELSE IF ~dbOk THEN "database error"
    ELSE IF doc.invoiceNumber \in InvoiceNumbers THEN "E11000 duplicate key"
    ELSE ""

Inserted(doc) ==
    [i \in DOMAIN invoices \cup {nextId} |->
        IF i = nextId THEN [doc EXCEPT !._id = nextId] ELSE invoices[i]]

\* Saved with the document written although save() reported an error
Saved_DespiteError(doc, error) == Inserted(doc)

\* the collection after document.save(): the document is in it only when
\* save() did not throw
Saved(doc, error) == IF error = "" THEN Inserted(doc) ELSE invoices

-----------------------------------------------------------------------------
\* createInvoice

\* a calculatedValues object as the frontend sends it (per-day rate 500)
FrontendValues ==
    [totalEmployees |-> 1, totalPresentDays |-> 3, totalOvertimeDays |-> 0,
     baseTotal |-> 1500, overtimeAmount |-> 0, serviceCharge |-> 12208,
     pfAmount |-> 39000, esicAmount |-> 39000, bonusAmount |-> 0,
     subTotal |-> 1744, totalBeforeTax |-> 186608, cgst |-> 1679472,
     sgst |-> 1679472, grandTotal |-> 1866, perDayRate |-> 500]

CompanyIds == {"c1", "c2"}

Emp(present_day, total_day) ==
    [name |-> "emp", present_day |-> present_day, total_day |-> total_day]

\* req.body.  taxType is a field a request may carry; the handler does not
\* destructure it.
CreateBody(companyId, hasAttendance, attendanceData, gstPaidBy, calculatedValues) ==
    [companyId |-> companyId, hasAttendance |-> hasAttendance,
     attendanceData |-> attendanceData, gstPaidBy |-> gstPaidBy,
     serviceChargeRate |-> DefaultServiceChargeRate, bonusRate |-> 0,
     overtimeRate2 |-> DefaultOvertimeRate2, calculatedValues |-> calculatedValues,
     taxType |-> <<>>]

\* request bodies: an ordinary month for either company (the second asks for
\* IGST and no service charge), a batch that comes with calculatedValues, a
\* batch whose employees report no working days, an empty batch, a company
\* that does not exist, a body without attendance data.
\* Two concurrent clients send the ordinary request only.
CreateBodies ==
    IF Cardinality(clients) > 1
    THEN {CreateBody("c1", TRUE, <<Emp(6, 6), Emp(2, 6)>>, "ashapuri", <<>>)}
    ELSE {CreateBody("c1", TRUE, <<Emp(6, 6), Emp(2, 6)>>, "ashapuri", <<>>),
          [CreateBody("c2", TRUE, <<Emp(5, 5)>>, "principal-employer", <<>>)
              EXCEPT !.taxType = <<"igst">>, !.serviceChargeRate = 0],
          CreateBody("c1", TRUE, <<Emp(3, 6)>>, "principal-employer", <<FrontendValues>>),
          CreateBody("c1", TRUE, <<Emp(3, 0)>>, "principal-employer", <<>>),
          CreateBody("c1", TRUE, <<>>, "principal-employer", <<>>),
          CreateBody("c9", TRUE, <<>>, "principal-employer", <<>>),
          CreateBody("c1", FALSE, <<>>, "principal-employer", <<>>)}

\* Totals with the grand total carried over from the invoices already stored
Totals_CarriedOver(body) ==
    LET totals == FallbackCalculation(body.attendanceData, body.gstPaidBy,
                      body.serviceChargeRate, body.bonusRate, body.overtimeRate2)
    IN [totals EXCEPT !.grandTotal =
            @ + Sum([i \in DOMAIN SortedSeq(DOMAIN invoices) |->
                        invoices[SortedSeq(DOMAIN invoices)[i]].billDetails.totalAmount])]

\* the totals of the invoice: calculatedValues when the request carries them,
\* the fallback calculation otherwise
Totals(body) ==
    IF body.calculatedValues # <<>>
    THEN LET calculatedValues == body.calculatedValues[1]
         IN [totalEmployees     |-> calculatedValues.totalEmployees,
             totalPresentDays   |-> calculatedValues.totalPresentDays,
             totalOvertimeDays  |-> calculatedValues.totalOvertimeDays,
             baseTotal          |-> calculatedValues.baseTotal,
             overtimeAmount     |-> calculatedValues.overtimeAmount,
             serviceChargeTotal |-> calculatedValues.serviceCharge,
             pf                 |-> calculatedValues.pfAmount,
             esic               |-> calculatedValues.esicAmount,
             bonus              |-> calculatedValues.bonusAmount,
             roundOffSubTotal   |-> calculatedValues.subTotal,
             totalBeforeTax     |-> calculatedValues.totalBeforeTax,
             cgst               |-> calculatedValues.cgst,
             sgst               |-> calculatedValues.sgst,
             grandTotal         |-> calculatedValues.grandTotal]
    ELSE FallbackCalculation(body.attendanceData, body.gstPaidBy, body.serviceChargeRate,
                             body.bonusRate, body.overtimeRate2)

\* calculatedValues?.perDayRate || 466
EmployeePerDayRate(body) ==
    IF body.calculatedValues # <<>> /\ body.calculatedValues[1].perDayRate # 0
    THEN body.calculatedValues[1].perDayRate
    ELSE 466

\* new Invoice({...}) of createInvoice
CreateDocument(body, totals, employees, invoiceNumber) ==
    [_id                |-> 0,
     invoiceNumber      |-> invoiceNumber,
     companyId          |-> body.companyId,
     taxType            |-> "gst",
     paymentMethod      |-> "paid-by-us",
     gstPaidBy          |-> body.gstPaidBy,
     serviceChargeRate  |-> body.serviceChargeRate,
     bonusRate          |-> body.bonusRate,
     overtimeRate2      |-> body.overtimeRate2,
     billDetails        |-> [baseAmount     |-> totals.baseTotal,
                             serviceCharge  |-> totals.serviceChargeTotal,
                             pfAmount       |-> totals.pf,
                             esicAmount     |-> totals.esic,
                             bonusAmount    |-> totals.bonus,
                             overtimeAmount |-> totals.overtimeAmount,
                             gstAmount      |-> totals.cgst + totals.sgst,
                             totalAmount    |-> totals.grandTotal],
     attendanceData     |-> [totalEmployees    |-> totals.totalEmployees,
                             totalPresentDays  |-> totals.totalPresentDays,
                             totalOvertimeDays |-> totals.totalOvertimeDays,
                             perDayRate        |-> 466,
                             workingDays       |-> workingDaysInMonth(body.attendanceData)],
     extractedEmployees |-> employees,
     status             |-> "draft",
     paymentStatus      |-> "pending",
     paymentDate        |-> <<>>,
     notes              |-> <<>>,
     billTo             |-> [name |-> <<>>, address |-> <<>>],
     isMerged           |-> FALSE,
     sourceInvoices     |-> <<>>,
     mergedCompanies    |-> <<>>,
     fileUrl            |-> "local",
     cloudinaryPublicId |-> <<>>]

\* the request reaches the handler: company lookup, input check, calculation
CreateBegin(c) ==
    /\ Free(c)
    /\ \E body \in CreateBodies :
          IF body.companyId \notin companies
          THEN Finish(c, "createInvoice", body, Response(404, "Company not found"))
          ELSE IF ~body.hasAttendance
          THEN Finish(c, "createInvoice", body,
                      Response(400, "Valid attendance data is required"))
          ELSE req' = [req EXCEPT ![c] =
                   [op |-> "createInvoice", pc |-> "count", body |-> body,
                    totals |-> Totals(body),
                    employees |-> processedEmployees(body.attendanceData,
                                      EmployeePerDayRate(body), body.overtimeRate2)]]
    /\ UNCHANGED <<clients, companies, invoices, nextId, cloud>>
    /\ UNCHANGED <<calcVars, salarySlips>>

\* Invoice.countDocuments over the year, and the number derived from it
CreateCount(c) ==
    /\ req[c].op = "createInvoice" /\ req[c].pc = "count"
    /\ nextId <= MaxInvoices
    /\ LET count == Cardinality(DOMAIN invoices)
           invoiceNumber == [prefix |-> "INV", seq |-> count + 1]
       IN req' = [req EXCEPT ![c] =
                   [op |-> "createInvoice", pc |-> "save", body |-> req[c].body,
                    invoice |-> CreateDocument(req[c].body, req[c].totals,
                                               req[c].employees, invoiceNumber)]]
    /\ UNCHANGED <<clients, companies, invoices, nextId, cloud>>
    /\ UNCHANGED <<calcVars, salarySlips>>

\* invoice.save() and the response
CreateSave(c) ==
    /\ req[c].op = "createInvoice" /\ req[c].pc = "save"
    /\ \E dbOk \in BOOLEAN :
          LET error == SaveError(req[c].invoice, dbOk)
          IN IF error = ""
             THEN /\ nextId <= MaxInvoices
                  /\ invoices' = Saved(req[c].invoice, error)
                  /\ nextId' = nextId + 1
                  /\ req' = [req EXCEPT ![c] =
                        [op |-> "createInvoice", pc |-> "done", body |-> req[c].body,
                         response |-> Response(200, ""), savedId |-> nextId,
                         invoiceNumber |-> req[c].invoice.invoiceNumber]]
             ELSE /\ invoices' = Saved(req[c].invoice, error)
                  /\ UNCHANGED nextId
                  /\ req' = [req EXCEPT ![c] =
                        [op |-> "createInvoice", pc |-> "done", body |-> req[c].body,
                         response |-> Response(500, error), savedId |-> 0,
                         invoiceNumber |-> req[c].invoice.invoiceNumber]]
    /\ UNCHANGED <<clients, companies, cloud>>
    /\ UNCHANGED <<calcVars, salarySlips>>

-----------------------------------------------------------------------------
\* mergeInvoices

\* Unique with every occurrence kept
Unique_KeepsAll(arr) == arr

\* [...new Set(arr)]: the distinct values in the order of their first appearance
RECURSIVE Unique(_)
Unique(arr) ==
    IF arr = <<>> THEN <<>>
    ELSE LET front == Unique(SubSeq(arr, 1, Len(arr) - 1))
             last == arr[Len(arr)]
         IN IF \E i \in DOMAIN front : front[i] = last THEN front ELSE Append(front, last)

Range(arr) == {arr[i] : i \in DOMAIN arr}

isValid(id) == id >= 1

\* Invoice.find({_id: {$in: invoiceIds}}): the stored documents, in store order
Find(invoiceIds) ==
    LET ids == SortedSeq(Range(invoiceIds) \cap DOMAIN invoices)
    IN [i \in DOMAIN ids |-> invoices[ids[i]]]

mostCommon(arr) ==
    LET keys == Unique(arr)
        counts(item) == Cardinality({i \in DOMAIN arr : arr[i] = item})
        reduce[i \in 1..Len(keys)] ==
            IF i = 1 THEN keys[1]
            ELSE IF counts(reduce[i - 1]) > counts(keys[i]) THEN reduce[i - 1] ELSE keys[i]
    IN reduce[Len(keys)]

RECURSIVE Flatten(_)
Flatten(seqs) == IF seqs = <<>> THEN <<>> ELSE Head(seqs) \o Flatten(Tail(seqs))

\* mergedBillDetails with the total derived again from the summed parts
mergedBillDetails_Rederived(sources) ==
    LET total(f(_)) == Sum([i \in DOMAIN sources |-> f(sources[i].billDetails)])
        base(b) == b.baseAmount
        service(b) == b.serviceCharge
        pf(b) == b.pfAmount
        esic(b) == b.esicAmount
        bonus(b) == b.bonusAmount
        overtime(b) == b.overtimeAmount
        gst(b) == b.gstAmount
    IN [baseAmount     |-> total(base),
        serviceCharge  |-> total(service),
        pfAmount       |-> total(pf),
        esicAmount     |-> total(esic),
        bonusAmount    |-> total(bonus),
        overtimeAmount |-> total(overtime),
        gstAmount      |-> total(gst),
        totalAmount    |-> MathRound(800 * total(base) + 400 * total(overtime)
                                     + 4 * total(pf) + total(esic) + 4 * total(bonus)
                                     + 8 * total(service), 800)]

\* the sums of the bill details over the fetched invoices
mergedBillDetails(sources) ==
    [baseAmount     |-> Sum([i \in DOMAIN sources |-> sources[i].billDetails.baseAmount]),
     serviceCharge  |-> Sum([i \in DOMAIN sources |-> sources[i].billDetails.serviceCharge]),
     pfAmount       |-> Sum([i \in DOMAIN sources |-> sources[i].billDetails.pfAmount]),
     esicAmount     |-> Sum([i \in DOMAIN sources |-> sources[i].billDetails.esicAmount]),
     bonusAmount    |-> Sum([i \in DOMAIN sources |-> sources[i].billDetails.bonusAmount]),
     overtimeAmount |-> Sum([i \in DOMAIN sources |-> sources[i].billDetails.overtimeAmount]),
     gstAmount      |-> Sum([i \in DOMAIN sources |-> sources[i].billDetails.gstAmount]),
     totalAmount    |-> Sum([i \in DOMAIN sources |-> sources[i].billDetails.totalAmount])]

\* mergedAttendanceData with the per-day rate and the working days summed too
mergedAttendanceData_AllSummed(sources) ==
    LET total(f(_)) == Sum([i \in DOMAIN sources |-> f(sources[i].attendanceData)])
        employees(a) == a.totalEmployees
        present(a) == a.totalPresentDays
        overtime(a) == a.totalOvertimeDays
        rate(a) == a.perDayRate
        working(a) == a.workingDays
    IN [totalEmployees |-> total(employees), totalPresentDays |-> total(present),
        totalOvertimeDays |-> total(overtime), perDayRate |-> total(rate),
        workingDays |-> total(working)]

mergedAttendanceData(sources) ==
    [totalEmployees    |->
        Sum([i \in DOMAIN sources |-> sources[i].attendanceData.totalEmployees]),
     totalPresentDays  |->
        Sum([i \in DOMAIN sources |-> sources[i].attendanceData.totalPresentDays]),
     totalOvertimeDays |->
        Sum([i \in DOMAIN sources |-> sources[i].attendanceData.totalOvertimeDays]),
     perDayRate        |->
        MathMax({0} \cup {sources[i].attendanceData.perDayRate : i \in DOMAIN sources}),
     workingDays       |->
        MathMax({0} \cup {sources[i].attendanceData.workingDays : i \in DOMAIN sources})]

allEmployees(sources) ==
    Flatten([i \in DOMAIN sources |->
        [j \in DOMAIN sources[i].extractedEmployees |->
            [name          |-> sources[i].extractedEmployees[j].name,
             presentDays   |-> sources[i].extractedEmployees[j].presentDays,
             regularDays   |-> sources[i].extractedEmployees[j].regularDays,
             overtimeDays  |-> sources[i].extractedEmployees[j].overtimeDays,
             totalDays     |-> sources[i].extractedEmployees[j].totalDays,
             salary        |-> sources[i].extractedEmployees[j].salary,
             sourceCompany |-> sources[i].companyId,
             sourceInvoice |-> sources[i].invoiceNumber]]])

\* new Invoice({...}) of mergeInvoices
MergeDocument(sources, invoiceIds, mergedInvoiceNumber) ==
    LET companyIds == Unique([i \in DOMAIN sources |-> sources[i].companyId])
    IN [_id                |-> 0,
        invoiceNumber      |-> mergedInvoiceNumber,
        companyId          |-> sources[1].companyId,
        taxType            |-> mostCommon([i \in DOMAIN sources |-> sources[i].taxType]),
        paymentMethod      |->
            mostCommon([i \in DOMAIN sources |-> sources[i].paymentMethod]),
        gstPaidBy          |-> mostCommon([i \in DOMAIN sources |-> sources[i].gstPaidBy]),
        serviceChargeRate  |->
            MathMax({IF sources[i].serviceChargeRate = 0 THEN 7
                     ELSE sources[i].serviceChargeRate : i \in DOMAIN sources}),
        bonusRate          |-> MathMax({sources[i].bonusRate : i \in DOMAIN sources}),
        overtimeRate2      |-> MathMax({sources[i].overtimeRate2 : i \in DOMAIN sources}),
        billDetails        |-> mergedBillDetails(sources),
        attendanceData     |-> mergedAttendanceData(sources),
        extractedEmployees |-> allEmployees(sources),
        status             |-> "draft",
        paymentStatus      |-> "pending",
        paymentDate        |-> <<>>,
        notes              |-> <<"Merged invoice from",
                                 [i \in DOMAIN sources |-> sources[i].invoiceNumber]>>,
        billTo             |-> [name |-> companyIds,
                                address |-> Flatten([i \in DOMAIN sources |->
                                                sources[i].billTo.address])],
        isMerged           |-> TRUE,
        sourceInvoices     |-> invoiceIds,
        mergedCompanies    |-> companyIds,
        fileUrl            |-> "local",
        cloudinaryPublicId |-> <<>>]

\* the lists of ids a merge request carries: stored ids, ids that resolve to
\* nothing, and 0 for a string that is no ObjectId.  Two concurrent clients
\* send lists of two distinct stored ids only.
MergeIdLists ==
    IF Cardinality(clients) > 1
    THEN {l \in [1..2 -> DOMAIN invoices] : l[1] < l[2]}
    ELSE UNION {[1..n -> 0..MaxInvoices] : n \in 0..MaxMergeIds}

\* AlreadyMerged with the check left out
AlreadyMerged_Unchecked(found) == FALSE

\* invoices.filter(inv => inv.isMerged).length > 0
AlreadyMerged(found) == \E i \in DOMAIN found : found[i].isMerged

MergeRequest(pc, invoiceIds, sources, invoice, savedId, pdfUploadResult, failedStep, response) ==
    [op |-> "mergeInvoices", pc |-> pc, body |-> [invoiceIds |-> invoiceIds],
     sources |-> sources, invoice |-> invoice, savedId |-> savedId,
     pdfUploadResult |-> pdfUploadResult, failedStep |-> failedStep,
     response |-> response]

MergeFailed(c, invoiceIds, failedStep, response) ==
    req' = [req EXCEPT ![c] =
        MergeRequest("done", invoiceIds, <<>>, <<>>, 0, FALSE, failedStep, response)]

\* the request reaches the handler: input checks, the lookup of the sources
\* and the checks on them
MergeBegin(c) ==
    /\ Free(c)
    /\ \E invoiceIds \in MergeIdLists, dbOk \in BOOLEAN :
          IF Len(invoiceIds) < 2
          THEN MergeFailed(c, invoiceIds, "validation",
                   Response(400, "At least 2 invoice IDs are required for merging"))
          ELSE IF \E i \in DOMAIN invoiceIds : ~isValid(invoiceIds[i])
          THEN MergeFailed(c, invoiceIds, "validation", Response(400, "Invalid invoice IDs"))
          ELSE IF ~dbOk
          THEN MergeFailed(c, invoiceIds, "lookup", Response(500, "database error"))
          ELSE LET found == Find(invoiceIds)
               IN IF Len(found) # Len(invoiceIds)
                  THEN MergeFailed(c, invoiceIds, "lookup",
                           Response(404, "Invoices not found"))
                  ELSE IF AlreadyMerged(found)
                  THEN MergeFailed(c, invoiceIds, "validation",
                           Response(400, "Cannot merge already merged invoices"))
                  ELSE IF \E i \in DOMAIN found : found[i].companyId \notin companies
                  THEN MergeFailed(c, invoiceIds, "aggregation",
                           Response(500, "Cannot read properties of null"))
                  ELSE req' = [req EXCEPT ![c] =
                           MergeRequest("count", invoiceIds, found, <<>>, 0, FALSE, "",
                                        Response(0, ""))]
    /\ UNCHANGED <<clients, companies, invoices, nextId, cloud>>
    /\ UNCHANGED <<calcVars, salarySlips>>

\* Invoice.countDocuments({isMerged: true, ...}) and the number derived from it
MergeCount(c) ==
    /\ req[c].op = "mergeInvoices" /\ req[c].pc = "count"
    /\ nextId <= MaxInvoices
    /\ \E dbOk \in BOOLEAN :
          IF ~dbOk
          THEN MergeFailed(c, req[c].body.invoiceIds, "number",
                           Response(500, "database error"))
          ELSE LET mergedCount == Cardinality({i \in DOMAIN invoices : invoices[i].isMerged})
                   mergedInvoiceNumber == [prefix |-> "MINV", seq |-> mergedCount + 1]
               IN req' = [req EXCEPT ![c] =
                     MergeRequest("save", req[c].body.invoiceIds, req[c].sources,
                         MergeDocument(req[c].sources, req[c].body.invoiceIds,
                                       mergedInvoiceNumber),
                         0, FALSE, "", Response(0, ""))]
    /\ UNCHANGED <<clients, companies, invoices, nextId, cloud>>
    /\ UNCHANGED <<calcVars, salarySlips>>

\* mergedInvoice.save()
MergeSave(c) ==
    /\ req[c].op = "mergeInvoices" /\ req[c].pc = "save"
    /\ \E dbOk \in BOOLEAN :
          LET error == SaveError(req[c].invoice, dbOk)
          IN IF error = ""
             THEN /\ nextId <= MaxInvoices
                  /\ invoices' = Saved(req[c].invoice, error)
                  /\ nextId' = nextId + 1
                  /\ req' = [req EXCEPT ![c] =
                        MergeRequest("pdf", req[c].body.invoiceIds, req[c].sources,
                            req[c].invoice, nextId, FALSE, "", Response(0, ""))]
             ELSE /\ invoices' = Saved(req[c].invoice, error)
                  /\ UNCHANGED nextId
                  /\ MergeFailed(c, req[c].body.invoiceIds, "save", Response(500, error))
    /\ UNCHANGED <<clients, companies, cloud>>
    /\ UNCHANGED <<calcVars, salarySlips>>

\* PdfStored with a failure of the PDF undoing the merge
PdfStored_RollsBack(id, outcome, publicId) ==
    IF outcome = "ok" /\ id \in DOMAIN invoices
    THEN [invoices EXCEPT ![id].fileUrl = "cloudinary",
                          ![id].cloudinaryPublicId = <<publicId>>]
    ELSE [i \in DOMAIN invoices \ {id} |-> invoices[i]]

\* the collection after the inner try: the URL and public id of the uploaded
\* file are stored on the invoice when nothing threw, nothing is written
\* otherwise
PdfStored(id, outcome, publicId) ==
    IF outcome = "ok" /\ id \in DOMAIN invoices
    THEN [invoices EXCEPT ![id].fileUrl = "cloudinary",
                          ![id].cloudinaryPublicId = <<publicId>>]
    ELSE invoices

\* the inner try: render the PDF, upload it, store its URL on the invoice.
\* Whatever throws is caught and logged.
MergePdf(c) ==
    /\ req[c].op = "mergeInvoices" /\ req[c].pc = "pdf"
    /\ \E outcome \in {"render fails", "upload fails", "save fails", "ok"} :
          LET uploaded == outcome \in {"save fails", "ok"}
              id == req[c].savedId
              publicId == req[c].invoice.invoiceNumber
          IN /\ cloud' = IF uploaded THEN cloud \cup {publicId} ELSE cloud
             /\ invoices' = PdfStored(id, outcome, publicId)
             /\ req' = [req EXCEPT ![c] =
                   MergeRequest("reread", req[c].body.invoiceIds, req[c].sources,
                       req[c].invoice, id, uploaded,
                       IF outcome = "ok" THEN "" ELSE outcome, Response(0, ""))]
    /\ UNCHANGED <<clients, companies, nextId>>
    /\ UNCHANGED <<calcVars, salarySlips>>

\* Invoice.findById(...).populate(...) for the response, and the response
MergeRespond(c) ==
    /\ req[c].op = "mergeInvoices" /\ req[c].pc = "reread"
    /\ \E dbOk \in BOOLEAN :
          req' = [req EXCEPT ![c] =
              MergeRequest("done", req[c].body.invoiceIds, <<>>, <<>>, req[c].savedId,
                  req[c].pdfUploadResult,
                  IF dbOk THEN req[c].failedStep ELSE "reread",
                  IF dbOk
                  THEN [status |-> 201, error |-> "",
                        pdfGenerated |-> req[c].pdfUploadResult]
                  ELSE Response(500, "database error"))]
    /\ UNCHANGED <<clients, companies, invoices, nextId, cloud>>
    /\ UNCHANGED <<calcVars, salarySlips>>

-----------------------------------------------------------------------------
\* deleteMergedInvoice, deleteInvoice, deleteCompany

\* the ids a request names: stored ids, ids that resolve to nothing, and 0
\* for a string that is no ObjectId
IdInputs == 0..MaxInvoices

\* Without with the sources of a merged invoice deleted along with it
Without_Cascade(id) ==
    [i \in DOMAIN invoices \ ({id} \cup Range(invoices[id].sourceInvoices)) |-> invoices[i]]

\* the collection after findByIdAndDelete(id)
Without(id) == [i \in DOMAIN invoices \ {id} |-> invoices[i]]

\* the request reaches the handler: the id check, the lookup, the isMerged check
DeleteMergedBegin(c) ==
    /\ Free(c)
    /\ \E id \in IdInputs, dbOk \in BOOLEAN :
          LET body == [id |-> id]
          IN IF ~isValid(id)
             THEN Finish(c, "deleteMergedInvoice", body, Response(400, "Invalid invoice ID"))
             ELSE IF ~dbOk
             THEN Finish(c, "deleteMergedInvoice", body, Response(500, "database error"))
             ELSE IF id \notin DOMAIN invoices
             THEN Finish(c, "deleteMergedInvoice", body, Response(404, "Invoice not found"))
             ELSE IF ~invoices[id].isMerged
             THEN Finish(c, "deleteMergedInvoice", body,
                         Response(400, "This route is only for deleting merged invoices"))
             ELSE req' = [req EXCEPT ![c] =
                      [op |-> "deleteMergedInvoice", pc |-> "delete", body |-> body,
                       cloudinaryPublicId |-> invoices[id].cloudinaryPublicId]]
    /\ UNCHANGED <<clients, companies, invoices, nextId, cloud>>
    /\ UNCHANGED <<calcVars, salarySlips>>

\* the file is deleted from the storage service (a failure is caught and
\* logged), then Invoice.findByIdAndDelete(id), then the response
DeleteMergedFinish(c) ==
    /\ req[c].op = "deleteMergedInvoice" /\ req[c].pc = "delete"
    /\ \E fileOk \in BOOLEAN, dbOk \in BOOLEAN :
          /\ cloud' = IF req[c].cloudinaryPublicId # <<>> /\ fileOk
                      THEN cloud \ {req[c].cloudinaryPublicId[1]}
                      ELSE cloud
          /\ invoices' = IF dbOk THEN Without(req[c].body.id) ELSE invoices
          /\ Finish(c, "deleteMergedInvoice", req[c].body,
                    IF dbOk THEN Response(200, "") ELSE Response(500, "database error"))
    /\ UNCHANGED <<clients, companies, nextId>>
    /\ UNCHANGED <<calcVars, salarySlips>>

\* deleteInvoice: lookup, the file (a failure is caught and logged), the delete
DeleteInvoice(c) ==
    /\ Free(c)
    /\ \E id \in IdInputs, fileOk \in BOOLEAN, dbOk \in BOOLEAN :
          LET body == [id |-> id]
          IN IF ~isValid(id)
             THEN /\ Finish(c, "deleteInvoice", body, Response(500, "Cast to ObjectId failed"))
                  /\ UNCHANGED <<invoices, cloud>>
             ELSE IF id \notin DOMAIN invoices
             THEN /\ Finish(c, "deleteInvoice", body, Response(404, "Invoice not found"))
                  /\ UNCHANGED <<invoices, cloud>>
             ELSE /\ cloud' = IF /\ invoices[id].fileUrl = "cloudinary"
                                 /\ invoices[id].cloudinaryPublicId # <<>>
                                 /\ fileOk
                              THEN cloud \ {invoices[id].cloudinaryPublicId[1]}
                              ELSE cloud
                  /\ invoices' = IF dbOk THEN Without(id) ELSE invoices
                  /\ Finish(c, "deleteInvoice", body,
                            IF dbOk THEN Response(200, "")
                            ELSE Response(500, "database error"))
    /\ UNCHANGED <<clients, companies, nextId>>
    /\ UNCHANGED <<calcVars, salarySlips>>

-----------------------------------------------------------------------------
\* updateInvoice

\* the fields a request may carry, each <<>> when absent
UpdateBody(status, paymentStatus, billTo, notes) ==
    [status |-> status, paymentStatus |-> paymentStatus, billTo |-> billTo, notes |-> notes]

\* request bodies: the cancellation of a paid invoice, with a new billing
\* address and a note
UpdateBodies ==
    {UpdateBody(<<"cancelled">>, <<"paid">>, <<[address |-> <<"new address">>]>>,
                <<"cancelled after payment">>)}

\* {...a, ...b}
Spread(a, b) == [f \in DOMAIN a \cup DOMAIN b |-> IF f \in DOMAIN b THEN b[f] ELSE a[f]]

\* the ids an update names: the stored invoices, an id that resolves to
\* nothing, and 0 for a string that is no ObjectId
UpdateIds == DOMAIN invoices \cup {0, MaxInvoices + 1}

\* Updated with the totals of the invoice cleared along with the status
Updated_ClearsTotals(invoice, body) ==
    [invoice EXCEPT
        !.status = IF body.status # <<>> THEN body.status[1] ELSE @,
        !.paymentStatus = IF body.paymentStatus # <<>> THEN body.paymentStatus[1] ELSE @,
        !.paymentDate = IF body.paymentStatus = <<"paid">> THEN <<"now">> ELSE @,
        !.billTo = IF body.billTo # <<>> THEN Spread(@, body.billTo[1]) ELSE @,
        !.notes = IF body.notes # <<>> THEN body.notes ELSE @,
        !.billDetails.totalAmount = IF body.status = <<"cancelled">> THEN 0 ELSE @]

\* the "Update allowed fields" block: status, paymentStatus (with paymentDate
\* when it becomes "paid"), billTo, notes
Updated(invoice, body) ==
    [invoice EXCEPT
        !.status = IF body.status # <<>> THEN body.status[1] ELSE @,
        !.paymentStatus = IF body.paymentStatus # <<>> THEN body.paymentStatus[1] ELSE @,
        !.paymentDate = IF body.paymentStatus = <<"paid">> THEN <<"now">> ELSE @,
        !.billTo = IF body.billTo # <<>> THEN Spread(@, body.billTo[1]) ELSE @,
        !.notes = IF body.notes # <<>> THEN body.notes ELSE @]

\* updateInvoice: lookup, the allowed fields, invoice.save()
UpdateInvoice(c) ==
    /\ Free(c)
    /\ \E id \in UpdateIds, body \in UpdateBodies, dbOk \in BOOLEAN :
          LET request == [id |-> id, update |-> body]
          IN IF ~isValid(id)
             THEN /\ Finish(c, "updateInvoice", request,
                            Response(500, "Cast to ObjectId failed"))
                  /\ UNCHANGED invoices
             ELSE IF id \notin DOMAIN invoices
             THEN /\ Finish(c, "updateInvoice", request, Response(404, "Invoice not found"))
                  /\ UNCHANGED invoices
             ELSE /\ invoices' = IF dbOk
                                 THEN [invoices EXCEPT ![id] = Updated(invoices[id], body)]
                                 ELSE invoices
                  /\ Finish(c, "updateInvoice", request,
                            IF dbOk THEN Response(200, "")
                            ELSE Response(500, "database error"))
    /\ UNCHANGED <<clients, companies, nextId, cloud>>
    /\ UNCHANGED <<calcVars, salarySlips>>

\* company.employeeCount: c1 has employees, c2 has none
EmployeeCount(id) == IF id = "c1" THEN 1 ELSE 0

\* deleteCompany: refused for a company with employees
DeleteCompany ==
    /\ \E id \in companies : EmployeeCount(id) = 0 /\ companies' = companies \ {id}
    /\ UNCHANGED <<clients, invoices, nextId, cloud, req>>
    /\ UNCHANGED <<calcVars, salarySlips>>

-----------------------------------------------------------------------------
\* The store: one client, whose requests run one after the other

InitStore ==
    /\ calcInput = <<>>
    /\ calcResult = <<>>
    /\ calcPrev = <<>>
    /\ companies = CompanyIds
    /\ invoices = <<>>
    /\ nextId = 1
    /\ cloud = {}
    /\ salarySlips = <<>>
    /\ req = [c \in clients |-> NoRequest]

Init == clients = {1} /\ InitStore

Next ==
    \/ \E c \in clients : CreateBegin(c)
    \/ \E c \in clients : CreateCount(c)
    \/ \E c \in clients : CreateSave(c)
    \/ \E c \in clients : MergeBegin(c)
    \/ \E c \in clients : MergeCount(c)
    \/ \E c \in clients : MergeSave(c)
    \/ \E c \in clients : MergePdf(c)
    \/ \E c \in clients : MergeRespond(c)
    \/ \E c \in clients : DeleteMergedBegin(c)
    \/ \E c \in clients : DeleteMergedFinish(c)
    \/ \E c \in clients : DeleteInvoice(c)
    \/ DeleteCompany

Spec == Init /\ [][Next]_vars

\* Two clients whose creating requests interleave at every await, and who
\* update invoices in between
InitRace == clients = {1, 2} /\ InitStore

NextRace ==
    \/ \E c \in clients : CreateBegin(c)
    \/ \E c \in clients : CreateCount(c)
    \/ \E c \in clients : CreateSave(c)
    \/ \E c \in clients : MergeBegin(c)
    \/ \E c \in clients : MergeCount(c)
    \/ \E c \in clients : MergeSave(c)
    \/ \E c \in clients : MergePdf(c)
    \/ \E c \in clients : MergeRespond(c)
    \/ \E c \in clients : UpdateInvoice(c)

SpecRace == InitRace /\ [][NextRace]_vars

-----------------------------------------------------------------------------
\* Salary slips (amounts in paise)

\* the employees of the Employee collection
EmployeeIds == {"e1", "e2"}

\* an entry of req.body.employees
EmpData(employeeId, daysPresent, bonus) ==
    [employeeId |-> employeeId, basicSalary |-> 300000, daysPresent |-> daysPresent,
     totalWorkingDays |-> 0, bonus |-> bonus, professionalTax |-> 20000]

\* the requests to create-bulk: a batch of one employee, for one month of one
\* year; "e3" is no employee, "c3" is no company, 31 days present exceed the
\* 30 working days
SlipBodies ==
    {[companyId |-> companyId, empData |-> EmpData(employeeId, daysPresent, 0)] :
        companyId \in {"c1", "c3"}, employeeId \in EmployeeIds \cup {"e3"},
        daysPresent \in {20, 31}}

\* x || y for numbers
OrElse(x, y) == IF x # 0 THEN x ELSE y

\* new SalarySlip({...}) with the defaults of the schema
NewSalarySlip(id, companyId, empData) ==
    LET basicSalary == empData.basicSalary
        daysPresent == empData.daysPresent
        totalWorkingDays == OrElse(empData.totalWorkingDays, 30)
        earnedSalary == (basicSalary * daysPresent) \div totalWorkingDays
    IN [_id |-> id,
        employeeId |-> empData.employeeId,
        companyId |-> companyId,
        attendance |-> [totalWorkingDays |-> totalWorkingDays,
                        daysPresent |-> daysPresent,
                        daysAbsent |-> totalWorkingDays - daysPresent,
                        overtimeHours |-> 0],
        salary |-> [basicSalary |-> basicSalary, grossSalary |-> earnedSalary],
        deductions |-> [pf |-> (earnedSalary * 12) \div 100,
                        esic |-> (earnedSalary * 75) \div 10000,
                        tax |-> [tds |-> 0, professionalTax |-> empData.professionalTax],
                        totalDeductions |-> 0],
        bonus |-> empData.bonus,
        totalSalary |-> 0,
        paymentInfo |-> [paymentDate |-> <<>>, paymentMethod |-> "bank-transfer",
                         transactionId |-> <<>>],
        status |-> "draft",
        approvedAt |-> <<>>,
        notes |-> <<>>,
        xlsxFile |-> <<>>]

\* the first pre-validate hook: the total of the deductions and the total salary
PreValidate(slip) ==
    LET totalDeductions == slip.deductions.pf + slip.deductions.esic
                           + slip.deductions.tax.tds
                           + slip.deductions.tax.professionalTax
        net == slip.salary.grossSalary - totalDeductions + slip.bonus
    IN [slip EXCEPT !.deductions.totalDeductions = totalDeductions,
                    !.totalSalary = IF net > 0 THEN net ELSE 0]

PaymentMethods == {"bank-transfer", "cash", "cheque", "upi"}

SlipStatuses == {"draft", "approved", "paid", "cancelled"}

\* the validators of salarySlipSchema (min, max, enum)
SlipValidate(slip) ==
    /\ slip.attendance.totalWorkingDays >= 1 /\ slip.attendance.totalWorkingDays <= 31
    /\ slip.attendance.daysPresent >= 0
    /\ slip.attendance.daysAbsent >= 0
    /\ slip.attendance.overtimeHours >= 0
    /\ slip.salary.basicSalary >= 0
    /\ slip.salary.grossSalary >= 0
    /\ slip.deductions.pf >= 0 /\ slip.deductions.esic >= 0
    /\ slip.deductions.tax.tds >= 0 /\ slip.deductions.tax.professionalTax >= 0
    /\ slip.deductions.totalDeductions >= 0
    /\ slip.bonus >= 0
    /\ slip.totalSalary >= 0
    /\ slip.paymentInfo.paymentMethod \in PaymentMethods
    /\ slip.status \in SlipStatuses

\* the error of save(): "" when the hooks and the validators pass
SlipError(slip) ==
    IF slip.attendance.daysPresent + slip.attendance.daysAbsent
           > slip.attendance.totalWorkingDays
    THEN "Days present + days absent cannot exceed total working days"
    ELSE IF ~SlipValidate(slip) THEN "SalarySlip validation failed"
    ELSE ""

\* save() of a document read earlier: the paths the handler and the hooks
\* changed are written onto the stored document (paths taken at the top level)
SavedOnto(stored, read, slip) ==
    [f \in DOMAIN stored |-> IF slip[f] # read[f] THEN slip[f] ELSE stored[f]]

\* SalarySlip.findOne({employeeId, month, year})
ExistingSlip(employeeId) ==
    \E id \in DOMAIN salarySlips : salarySlips[id].employeeId = employeeId

\* the ids a request names: the stored slips, an id that resolves to nothing,
\* and 0 for a string that is no ObjectId
SlipIds == DOMAIN salarySlips \cup {0, MaxSlips + 1}

Handle(c, op, body, salarySlip) ==
    req' = [req EXCEPT ![c] = [op |-> op, pc |-> "save", body |-> body,
                               salarySlip |-> salarySlip]]

\* createBulkSalarySlips up to the end of the loop: the checks, and the save
\* of the slip of the employee
CreateSlipsBegin(c) ==
    /\ Free(c)
    /\ \E body \in SlipBodies :
          LET salarySlip == PreValidate(NewSalarySlip(nextId, body.companyId, body.empData))
          IN IF body.companyId \notin companies
             THEN /\ Finish(c, "createBulkSalarySlips", body,
                            Response(404, "Company not found"))
                  /\ UNCHANGED <<salarySlips, nextId>>
             ELSE IF \/ body.empData.employeeId \notin EmployeeIds
                     \/ ExistingSlip(body.empData.employeeId)
                     \/ SlipError(salarySlip) # ""
             THEN /\ Finish(c, "createBulkSalarySlips", body, Response(200, "created 0"))
                  /\ UNCHANGED <<salarySlips, nextId>>
             ELSE /\ nextId <= MaxSlips
                  /\ salarySlips' = (nextId :> salarySlip) @@ salarySlips
                  /\ nextId' = nextId + 1
                  /\ Handle(c, "createBulkSalarySlips", body, salarySlip)
    /\ UNCHANGED <<clients, companies, invoices, cloud>>
    /\ UNCHANGED calcVars

\* createBulkSalarySlips after the loop: the upload of the sheet and
\* updateMany({_id: {$in: ...}}, {$set: {xlsxFile}})
CreateSlipsUpload(c) ==
    /\ req[c].op = "createBulkSalarySlips" /\ req[c].pc = "save"
    /\ \E uploadOk \in BOOLEAN :
          LET id == req[c].salarySlip._id
          IN IF ~uploadOk
             THEN /\ Finish(c, "createBulkSalarySlips", req[c].body,
                            Response(500, "upload failed"))
                  /\ UNCHANGED salarySlips
             ELSE /\ salarySlips' =
                        IF id \in DOMAIN salarySlips
                        THEN [salarySlips EXCEPT ![id].xlsxFile = <<"salary-slip.xlsx">>]
                        ELSE salarySlips
                  /\ Finish(c, "createBulkSalarySlips", req[c].body, Response(200, ""))
    /\ UNCHANGED <<clients, companies, invoices, nextId, cloud>>
    /\ UNCHANGED calcVars

\* salarySlip.save() of a handler that changed the slip it read
Save(c, slip) ==
    LET id == req[c].salarySlip._id
        salarySlip == PreValidate(slip)
    IN IF SlipError(salarySlip) # ""
       THEN /\ Finish(c, req[c].op, req[c].body, Response(500, SlipError(salarySlip)))
            /\ UNCHANGED salarySlips
       ELSE IF id \notin DOMAIN salarySlips
       THEN /\ Finish(c, req[c].op, req[c].body, Response(500, "No document found"))
            /\ UNCHANGED salarySlips
       ELSE /\ salarySlips' = [salarySlips EXCEPT
                                  ![id] = SavedOnto(@, req[c].salarySlip, salarySlip)]
            /\ Finish(c, req[c].op, req[c].body, Response(200, ""))

allowedFields == {"attendance", "salary", "deductions", "bonus", "paymentInfo", "notes"}

\* typeof req.body[field] === "object"
ObjectFields == {"attendance", "salary", "deductions", "paymentInfo"}

\* the bodies of the updates: fewer days present; a tax along with a status;
\* more days present than working days
SlipUpdateBodies ==
    {[attendance |-> [daysPresent |-> 10]],
     [deductions |-> [tax |-> [tds |-> 50000, professionalTax |-> 0]], status |-> "paid"],
     [attendance |-> [daysPresent |-> 31]]}

\* the slip after the loop over Object.keys(req.body)
SlipUpdated(salarySlip, body) ==
    [f \in DOMAIN salarySlip |->
        IF f \in DOMAIN body \cap allowedFields
        THEN IF f \in ObjectFields THEN Spread(salarySlip[f], body[f]) ELSE body[f]
        ELSE salarySlip[f]]

IsDraft(salarySlip) == salarySlip.status = "draft"

IsApproved(salarySlip) == salarySlip.status = "approved"

\* updateSalarySlip: lookup and status check
UpdateSalarySlipBegin(c) ==
    /\ Free(c)
    /\ \E id \in SlipIds, update \in SlipUpdateBodies :
          LET body == [id |-> id, update |-> update]
          IN IF ~isValid(id)
             THEN Finish(c, "updateSalarySlip", body, Response(500, "Cast to ObjectId failed"))
             ELSE IF id \notin DOMAIN salarySlips
             THEN Finish(c, "updateSalarySlip", body, Response(404, "Salary slip not found"))
             ELSE IF ~IsDraft(salarySlips[id])
             THEN Finish(c, "updateSalarySlip", body, Response(400, "Can only update draft salary slips"))
             ELSE Handle(c, "updateSalarySlip", body, salarySlips[id])
    /\ UNCHANGED <<clients, companies, invoices, nextId, cloud, salarySlips>>
    /\ UNCHANGED calcVars

\* updateSalarySlip: the allowed fields and the save
UpdateSalarySlipSave(c) ==
    /\ req[c].op = "updateSalarySlip" /\ req[c].pc = "save"
    /\ Save(c, SlipUpdated(req[c].salarySlip, req[c].body.update))
    /\ UNCHANGED <<clients, companies, invoices, nextId, cloud>>
    /\ UNCHANGED calcVars

\* approveSalarySlip: lookup and status check
ApproveSalarySlipBegin(c) ==
    /\ Free(c)
    /\ \E id \in SlipIds :
          LET body == [id |-> id]
          IN IF ~isValid(id)
             THEN Finish(c, "approveSalarySlip", body, Response(500, "Cast to ObjectId failed"))
             ELSE IF id \notin DOMAIN salarySlips
             THEN Finish(c, "approveSalarySlip", body, Response(404, "Salary slip not found"))
             ELSE IF ~IsDraft(salarySlips[id])
             THEN Finish(c, "approveSalarySlip", body, Response(400, "Can only approve draft salary slips"))
             ELSE Handle(c, "approveSalarySlip", body, salarySlips[id])
    /\ UNCHANGED <<clients, companies, invoices, nextId, cloud, salarySlips>>
    /\ UNCHANGED calcVars

\* approveSalarySlip: the status, the approval and the save
ApproveSalarySlipSave(c) ==
    /\ req[c].op = "approveSalarySlip" /\ req[c].pc = "save"
    /\ Save(c, [req[c].salarySlip EXCEPT !.status = "approved", !.approvedAt = <<"now">>])
    /\ UNCHANGED <<clients, companies, invoices, nextId, cloud>>
    /\ UNCHANGED calcVars

\* the bodies of the payments: nothing named; a method and a transaction; a
\* method outside the enum
PayBodies ==
    {[paymentMethod |-> <<>>, transactionId |-> <<>>],
     [paymentMethod |-> <<"upi">>, transactionId |-> <<"t1">>],
     [paymentMethod |-> <<"card">>, transactionId |-> <<>>]}

\* markSalarySlipPaid: lookup and status check
MarkSalarySlipPaidBegin(c) ==
    /\ Free(c)
    /\ \E id \in SlipIds, payment \in PayBodies :
          LET body == [id |-> id, payment |-> payment]
          IN IF ~isValid(id)
             THEN Finish(c, "markSalarySlipPaid", body, Response(500, "Cast to ObjectId failed"))
             ELSE IF id \notin DOMAIN salarySlips
             THEN Finish(c, "markSalarySlipPaid", body, Response(404, "Salary slip not found"))
             ELSE IF ~IsApproved(salarySlips[id])
             THEN Finish(c, "markSalarySlipPaid", body, Response(400, "Can only mark approved salary slips as paid"))
             ELSE Handle(c, "markSalarySlipPaid", body, salarySlips[id])
    /\ UNCHANGED <<clients, companies, invoices, nextId, cloud, salarySlips>>
    /\ UNCHANGED calcVars

\* markSalarySlipPaid: the status, the payment and the save
MarkSalarySlipPaidSave(c) ==
    /\ req[c].op = "markSalarySlipPaid" /\ req[c].pc = "save"
    /\ LET payment == req[c].body.payment
       IN Save(c, [req[c].salarySlip EXCEPT
                      !.status = "paid",
                      !.paymentInfo =
                          [paymentDate |-> <<"now">>,
                           paymentMethod |-> IF payment.paymentMethod = <<>>
                                             THEN "bank-transfer"
                                             ELSE payment.paymentMethod[1],
                           transactionId |-> payment.transactionId]])
    /\ UNCHANGED <<clients, companies, invoices, nextId, cloud>>
    /\ UNCHANGED calcVars

\* CanDelete with the paid slips alone protected
CanDelete_UnlessPaid(salarySlip) == salarySlip.status # "paid"

\* the status check of deleteSalarySlip
CanDelete(salarySlip) == salarySlip.status = "draft"

\* deleteSalarySlip: lookup and status check
DeleteSalarySlipBegin(c) ==
    /\ Free(c)
    /\ \E id \in SlipIds :
          LET body == [id |-> id]
          IN IF ~isValid(id)
             THEN Finish(c, "deleteSalarySlip", body, Response(500, "Cast to ObjectId failed"))
             ELSE IF id \notin DOMAIN salarySlips
             THEN Finish(c, "deleteSalarySlip", body, Response(404, "Salary slip not found"))
             ELSE IF ~CanDelete(salarySlips[id])
             THEN Finish(c, "deleteSalarySlip", body, Response(400, "Can only delete draft salary slips"))
             ELSE Handle(c, "deleteSalarySlip", body, salarySlips[id])
    /\ UNCHANGED <<clients, companies, invoices, nextId, cloud, salarySlips>>
    /\ UNCHANGED calcVars

\* deleteSalarySlip: SalarySlip.findByIdAndDelete
DeleteSalarySlipFinish(c) ==
    /\ req[c].op = "deleteSalarySlip" /\ req[c].pc = "save"
    /\ salarySlips' = [id \in DOMAIN salarySlips \ {req[c].body.id} |-> salarySlips[id]]
    /\ Finish(c, "deleteSalarySlip", req[c].body, Response(200, ""))
    /\ UNCHANGED <<clients, companies, invoices, nextId, cloud>>
    /\ UNCHANGED calcVars

InitSalary == clients = {1} /\ InitStore

NextSalary ==
    \/ \E c \in clients : CreateSlipsBegin(c)
    \/ \E c \in clients : CreateSlipsUpload(c)
    \/ \E c \in clients : UpdateSalarySlipBegin(c)
    \/ \E c \in clients : UpdateSalarySlipSave(c)
    \/ \E c \in clients : ApproveSalarySlipBegin(c)
    \/ \E c \in clients : ApproveSalarySlipSave(c)
    \/ \E c \in clients : MarkSalarySlipPaidBegin(c)
    \/ \E c \in clients : MarkSalarySlipPaidSave(c)
    \/ \E c \in clients : DeleteSalarySlipBegin(c)
    \/ \E c \in clients : DeleteSalarySlipFinish(c)

SpecSalary == InitSalary /\ [][NextSalary]_vars

-----------------------------------------------------------------------------
\* C1: every employee processed by createInvoice has
\* regularDays + overtimeDays = presentDays, whatever the present-day count
\* and the overtime threshold of the batch.
C1_RegularPlusOvertime ==
    calcResult # <<>> =>
        \A i \in DOMAIN calcResult[1].employees :
            LET e == calcResult[1].employees[i]
            IN e.regularDays + e.overtimeDays = e.presentDays

\* an employee whose present days cross the threshold has been processed
C1_Witness ==
    /\ calcResult # <<>>
    /\ \E i \in DOMAIN calcResult[1].employees :
          /\ calcResult[1].employees[i].overtimeDays > 0
          /\ calcResult[1].employees[i].regularDays > 0

\* C2: with an overtime threshold <= 0 every present day is overtime:
\* overtimeDays = presentDays and no regular day, per employee and in the
\* aggregate of the invoice.
C2_AllOvertimeBelowZeroThreshold ==
    (/\ calcResult # <<>>
     /\ calcInput.attendanceData # <<>>
     /\ getOvertimeThreshold(workingDaysInMonth(calcInput.attendanceData)) <= 0)
    => /\ \A i \in DOMAIN calcResult[1].employees :
            LET e == calcResult[1].employees[i]
            IN e.overtimeDays = e.presentDays /\ e.regularDays = 0
       /\ calcResult[1].calc.totalPresentDays = 0
       /\ calcResult[1].calc.totalOvertimeDays =
            Sum([i \in DOMAIN calcInput.attendanceData |->
                    calcInput.attendanceData[i].present_day])

\* the sum of one bill-details field over the stored invoices that ids names
SourceSums(ids) ==
    LET total(f(_)) == Sum([i \in DOMAIN ids |-> f(invoices[ids[i]].billDetails)])
        base(b) == b.baseAmount
        service(b) == b.serviceCharge
        pf(b) == b.pfAmount
        esic(b) == b.esicAmount
        bonus(b) == b.bonusAmount
        overtime(b) == b.overtimeAmount
        gst(b) == b.gstAmount
        amount(b) == b.totalAmount
    IN [baseAmount |-> total(base), serviceCharge |-> total(service),
        pfAmount |-> total(pf), esicAmount |-> total(esic),
        bonusAmount |-> total(bonus), overtimeAmount |-> total(overtime),
        gstAmount |-> total(gst), totalAmount |-> total(amount)]

\* a mergeInvoices request that has saved its merged invoice
MergeSaved(c) == req[c].op = "mergeInvoices" /\ req[c].pc \in {"pdf", "reread"}

\* C3: each BillDetails field of a merged invoice equals the sum of that
\* field over its source invoices, as they are stored.
C3_MergedBillDetailsAreSums ==
    \A c \in clients :
        MergeSaved(c) =>
            /\ req[c].savedId \in DOMAIN invoices
            /\ invoices[req[c].savedId].isMerged
            /\ invoices[req[c].savedId].billDetails = SourceSums(req[c].body.invoiceIds)

\* two invoices with different totals, one of them with overtime and GST,
\* have been merged
C3_Witness ==
    \E c \in clients :
        /\ MergeSaved(c)
        /\ Len(req[c].body.invoiceIds) >= 2
        /\ LET ids == req[c].body.invoiceIds
               merged == invoices[req[c].savedId].billDetails
           IN /\ invoices[ids[1]].billDetails.totalAmount
                    # invoices[ids[2]].billDetails.totalAmount
              /\ \A i \in DOMAIN ids : invoices[ids[i]].billDetails.totalAmount > 0
              /\ merged.overtimeAmount > 0
              /\ merged.gstAmount > 0
              /\ merged.totalAmount > invoices[ids[1]].billDetails.totalAmount

\* a precondition of mergeInvoices is unmet: fewer than 2 ids, an id that
\* resolves to no stored invoice, or a source that is itself merged
UnmetPrecondition(invoiceIds) ==
    \/ Len(invoiceIds) < 2
    \/ \E i \in DOMAIN invoiceIds : invoiceIds[i] \notin DOMAIN invoices
    \/ \E i \in DOMAIN invoiceIds :
          invoiceIds[i] \in DOMAIN invoices /\ invoices[invoiceIds[i]].isMerged

\* C4: a mergeInvoices request with an unmet precondition ends at once with
\* an error response and leaves the Invoice collection as it was.
C4_UnmetPreconditionRejected ==
    [][\A c \in clients :
          (/\ Free(c)
           /\ req'[c] # req[c]
           /\ req'[c].op = "mergeInvoices"
           /\ UnmetPrecondition(req'[c].body.invoiceIds))
          => /\ req'[c].pc = "done"
             /\ IsError(req'[c].response)
             /\ invoices' = invoices]_vars

\* each of the three preconditions has been unmet and rejected: here the
\* merge of an invoice that is already merged
C4_Witness ==
    \E c \in clients :
        /\ req[c].op = "mergeInvoices" /\ req[c].pc = "done"
        /\ Len(req[c].body.invoiceIds) >= 2
        /\ \A i \in DOMAIN req[c].body.invoiceIds :
              req[c].body.invoiceIds[i] \in DOMAIN invoices
        /\ \E i \in DOMAIN req[c].body.invoiceIds :
              invoices[req[c].body.invoiceIds[i]].isMerged
        /\ req[c].response.status = 400
        /\ req[c].savedId = 0

\* C5: two concurrent creations (two createInvoice or two mergeInvoices)
\* never derive the same invoice number, and neither loses its invoice to
\* the unique index on invoiceNumber.
C5_NumbersNeverCollide ==
    /\ \A c, d \in clients :
          (/\ c # d
           /\ req[c].op = req[d].op
           /\ req[c].pc = "save" /\ req[d].pc = "save")
          => req[c].invoice.invoiceNumber # req[d].invoice.invoiceNumber
    /\ \A c \in clients :
          req[c].pc = "done" => req[c].response.error # "E11000 duplicate key"

\* a deleteMergedInvoice step of client c: the delete itself
DeleteMergedStep(c) ==
    /\ req[c].op = "deleteMergedInvoice" /\ req[c].pc = "delete"
    /\ req'[c].pc = "done"

\* C6: deleteMergedInvoice removes the merged invoice and at most its own
\* file; every other invoice, its sources among them, stays as it was; on an
\* invoice that is not merged it is rejected and deletes nothing.
C6_DeleteMergedTouchesOnlyMerged ==
    [][\A c \in clients :
          /\ DeleteMergedStep(c) =>
                LET id == req[c].body.id
                IN /\ invoices[id].isMerged
                   /\ DOMAIN invoices' \subseteq DOMAIN invoices
                   /\ \A i \in DOMAIN invoices \ {id} :
                         i \in DOMAIN invoices' /\ invoices'[i] = invoices[i]
                   /\ \A i \in Range(invoices[id].sourceInvoices) :
                         i \in DOMAIN invoices => i \in DOMAIN invoices'
                   /\ ~IsError(req'[c].response) => id \notin DOMAIN invoices'
                   /\ cloud' \subseteq cloud
                   /\ cloud \ cloud' \subseteq Range(invoices[id].cloudinaryPublicId)
          /\ (/\ Free(c)
              /\ req'[c] # req[c]
              /\ req'[c].op = "deleteMergedInvoice"
              /\ req'[c].body.id \in DOMAIN invoices
              /\ ~invoices[req'[c].body.id].isMerged)
             => /\ req'[c].pc = "done"
                /\ IsError(req'[c].response)
                /\ invoices' = invoices /\ cloud' = cloud]_vars

\* a merged invoice has been deleted and both of its sources are still stored
C6_Witness ==
    \E c \in clients :
        /\ req[c].op = "deleteMergedInvoice" /\ req[c].pc = "done"
        /\ req[c].response.status = 200
        /\ req[c].body.id \notin DOMAIN invoices
        /\ Cardinality(DOMAIN invoices) >= 2
        /\ \A i \in DOMAIN invoices : ~invoices[i].isMerged

\* a mergeInvoices request has answered after its PDF could not be rendered
\* or uploaded
PdfFailed(c) ==
    /\ req[c].op = "mergeInvoices" /\ req[c].pc = "done"
    /\ req[c].savedId # 0
    /\ ~req[c].pdfUploadResult

RecordSteps == {"validation", "lookup", "aggregation", "number", "save"}

\* C8: a mergeInvoices request that fails at any step up to and including
\* the save of the merged invoice writes nothing: the Invoice collection is
\* the same before and after, so no merged invoice of that request exists.
C8_FailedMergePersistsNothing ==
    [][\A c \in clients :
          (/\ req'[c] # req[c]
           /\ req'[c].op = "mergeInvoices"
           /\ req'[c].pc = "done"
           /\ req'[c].failedStep \in RecordSteps)
          => /\ invoices' = invoices
             /\ req'[c].savedId = 0
             /\ IsError(req'[c].response)]_vars

\* a merge of two stored invoices has failed at its save
C8_Witness ==
    \E c \in clients :
        /\ req[c].op = "mergeInvoices" /\ req[c].pc = "done"
        /\ req[c].failedStep = "save"
        /\ Cardinality(DOMAIN invoices) >= 2
        /\ \A i \in DOMAIN invoices : ~invoices[i].isMerged

\* g is n/d rounded to the nearest integer, halves up
IsRounded(g, n, d) == 2 * g * d - d <= 2 * n /\ 2 * n < 2 * g * d + d

C10_Monotonic ==
    calcPrev # <<>> => calcResult[1].calc.grandTotal >= calcPrev[1].calc.grandTotal

\* an increase that moves an employee across the overtime threshold
C10_Witness ==
    /\ calcPrev # <<>>
    /\ calcResult[1].calc.grandTotal > calcPrev[1].calc.grandTotal
    /\ calcResult[1].calc.totalOvertimeDays > calcPrev[1].calc.totalOvertimeDays
    /\ calcPrev[1].calc.totalOvertimeDays = 0
    /\ calcPrev[1].calc.totalPresentDays > 0

\* two requests carry the same attendance data and rate configuration, and
\* neither carries calculatedValues
SameInputs(a, b) ==
    /\ a.calculatedValues = <<>> /\ b.calculatedValues = <<>>
    /\ a.attendanceData = b.attendanceData
    /\ a.gstPaidBy = b.gstPaidBy
    /\ a.serviceChargeRate = b.serviceChargeRate
    /\ a.bonusRate = b.bonusRate
    /\ a.overtimeRate2 = b.overtimeRate2

\* client c has calculated the totals of an invoice from the same inputs as
\* the invoice that client d created earlier and that is still stored
CalculatedTwice(c, d) ==
    /\ c # d
    /\ req[c].op = "createInvoice" /\ req[c].pc = "count"
    /\ req[d].op = "createInvoice" /\ req[d].pc = "done"
    /\ req[d].savedId \in DOMAIN invoices
    /\ SameInputs(req[c].body, req[d].body)

SourceMax(ids, f(_)) ==
    LET values == {0} \cup {f(invoices[ids[i]].attendanceData) : i \in DOMAIN ids}
    IN CHOOSE m \in values : \A v \in values : v <= m

RECURSIVE IndianWords(_)
IndianWords(n) ==
    LET crore == n \div 10000000
        lakh == (n \div 100000) % 100
        thousand == (n \div 1000) % 100
    IN (IF crore > 0 THEN IndianWords(crore) \o <<"CRORE">> ELSE <<>>)
       \o (IF lakh > 0 THEN convertLessThanThousand(lakh) \o <<"LAKH">> ELSE <<>>)
       \o (IF thousand > 0 THEN convertLessThanThousand(thousand) \o <<"THOUSAND">>
           ELSE <<>>)
       \o convertLessThanThousand(n % 1000)

\* C13: numberToWords gives the zero-rupee phrase for 0 and, for n >= 1, the
\* words of n grouped as crore, lakh, thousand and the last three digits.
C13_IndianGrouping ==
    calcResult # <<>> =>
        IF calcInput = 0
        THEN calcResult[1] = <<"Zero", "Rupees", "Only">>
        ELSE calcResult[1] = IndianWords(calcInput) \o <<"RUPEES", "ONLY">>

\* C14: on every invoice stored by createInvoice, totalPresentDays is the sum
\* of the regular days of its employees and totalOvertimeDays the sum of their
\* overtime days.
C14_DayTotalsMatchEmployees ==
    \A id \in DOMAIN invoices :
        ~invoices[id].isMerged =>
            LET employees == invoices[id].extractedEmployees
            IN /\ invoices[id].attendanceData.totalPresentDays =
                    Sum([i \in DOMAIN employees |-> employees[i].regularDays])
               /\ invoices[id].attendanceData.totalOvertimeDays =
                    Sum([i \in DOMAIN employees |-> employees[i].overtimeDays])

\* C15: every stored merged invoice was made from at least two source
\* invoices, none of them merged and none of them cancelled when the merge
\* read them.
C15_MergedFromEligibleSources ==
    \A c \in clients :
        MergeSaved(c) =>
            /\ Len(req[c].sources) >= 2
            /\ \A i \in DOMAIN req[c].sources :
                  /\ ~req[c].sources[i].isMerged
                  /\ req[c].sources[i].status # "cancelled"

\* the fields updateInvoice may write
Editable == {"status", "paymentStatus", "paymentDate", "billTo", "notes"}

\* the step is one of updateInvoice
UpdateStep == \E c \in clients : req'[c] # req[c] /\ req'[c].op = "updateInvoice"

\* C16: no step of updateInvoice or mergeInvoices changes the invoiceNumber,
\* billDetails, attendanceData or employee list of an invoice that exists,
\* and a step of updateInvoice changes nothing but status, paymentStatus,
\* paymentDate, billTo and notes.
C16_CreatedFieldsFixed ==
    [][/\ \A id \in DOMAIN invoices \cap DOMAIN invoices' :
             /\ invoices'[id].invoiceNumber = invoices[id].invoiceNumber
             /\ invoices'[id].billDetails = invoices[id].billDetails
             /\ invoices'[id].attendanceData = invoices[id].attendanceData
             /\ invoices'[id].extractedEmployees = invoices[id].extractedEmployees
       /\ UpdateStep =>
             /\ DOMAIN invoices' = DOMAIN invoices
             /\ \A id \in DOMAIN invoices :
                   \A f \in DOMAIN invoices[id] \ Editable :
                       invoices'[id][f] = invoices[id][f]]_vars

\* an invoice that updateInvoice has cancelled, marked paid and given a new
\* address is a source of a stored merged invoice
C16_Witness ==
    \E m \in DOMAIN invoices :
        /\ invoices[m].isMerged
        /\ \E i \in DOMAIN invoices[m].sourceInvoices :
              LET source == invoices[invoices[m].sourceInvoices[i]]
              IN /\ source.status = "cancelled"
                 /\ source.paymentDate = <<"now">>
                 /\ source.billTo.address = <<"new address">>
                 /\ source.billDetails.totalAmount > 0

\* a request whose batch is empty or whose employees all report totalDays = 0,
\* for a company that exists and without totals of its own
EdgeCaseBody(body) ==
    /\ body.companyId \in companies
    /\ body.hasAttendance
    /\ body.calculatedValues = <<>>
    /\ \A i \in DOMAIN body.attendanceData : body.attendanceData[i].total_day = 0

\* C17: createInvoice with an empty batch, or with a batch whose employees
\* all have totalDays = 0, answers 200 and stores an invoice unless the
\* database itself fails.
C17_EdgeCasesPersist ==
    \A c \in clients :
        (/\ req[c].op = "createInvoice"
         /\ req[c].pc = "done"
         /\ EdgeCaseBody(req[c].body)
         /\ req[c].response.error \notin {"database error", "E11000 duplicate key"})
            => /\ req[c].response.status = 200
               /\ req[c].savedId >= 1

\* C18: an invoice stored by createInvoice carries the taxType its request
\* names, "gst" when the request names none.
C18_TaxTypeSelectsPath ==
    \A c \in clients :
        (/\ req[c].op = "createInvoice"
         /\ req[c].pc = "done"
         /\ req[c].response.status = 200
         /\ req[c].savedId \in DOMAIN invoices)
            => invoices[req[c].savedId].taxType =
                  IF req[c].body.taxType = <<>> THEN "gst" ELSE req[c].body.taxType[1]

\* C19: in each calculation of invoice totals, the service charge is the
\* rounded subtotal times the service charge rate (in hundredths of a rupee).
C19_ServiceChargeOnRoundedSubTotal ==
    calcResult # <<>> =>
        /\ calcResult[1].calc.serviceChargeTotal =
              calcResult[1].calc.roundOffSubTotal * calcInput.serviceChargeRate
        /\ calcResult[1].calcV2.serviceChargeTotal =
              calcResult[1].calcV2.roundOffSubTotal * calcInput.serviceChargeRate
        /\ \A taxType \in TaxTypes :
              calcResult[1].totals[taxType].serviceCharge =
                  calcResult[1].totals[taxType].roundOffAmount * 7

\* the value held by the most elements of arr; among the values tied for the
\* highest count, the one that appears first
FirstSeenMajority(arr) ==
    LET count(v) == Cardinality({i \in DOMAIN arr : arr[i] = v})
        first(v) == CHOOSE i \in DOMAIN arr : arr[i] = v /\ \A j \in 1..(i - 1) : arr[j] # v
        winners == {v \in Range(arr) : \A w \in Range(arr) : count(w) <= count(v)}
    IN CHOOSE v \in winners : \A w \in winners : first(v) <= first(w)

\* C20: taxType, paymentMethod and gstPaidBy of a merged invoice are each the
\* value most of its sources hold, the first seen of them on a tie.
C20_MajorityFirstSeen ==
    \A c \in clients :
        MergeSaved(c) =>
            LET sources == req[c].sources
                merged == invoices[req[c].savedId]
            IN /\ merged.taxType =
                     FirstSeenMajority([i \in DOMAIN sources |-> sources[i].taxType])
               /\ merged.paymentMethod =
                     FirstSeenMajority([i \in DOMAIN sources |-> sources[i].paymentMethod])
               /\ merged.gstPaidBy =
                     FirstSeenMajority([i \in DOMAIN sources |-> sources[i].gstPaidBy])

\* C21: serviceChargeRate, bonusRate and overtimeRate of a merged invoice are
\* each the maximum of that rate over its sources.
C21_MergedRatesAreMaxima ==
    \A c \in clients :
        MergeSaved(c) =>
            LET sources == req[c].sources
                merged == invoices[req[c].savedId]
            IN /\ merged.serviceChargeRate =
                     MathMax({sources[i].serviceChargeRate : i \in DOMAIN sources})
               /\ merged.bonusRate = MathMax({sources[i].bonusRate : i \in DOMAIN sources})
               /\ merged.overtimeRate2 =
                     MathMax({sources[i].overtimeRate2 : i \in DOMAIN sources})

\* the name, present days and total days of a raw entry as the rule reads
\* them: the first field given under either naming, "" or 0 when none is
ReadEntry(entry, index) ==
    [index |-> index,
     name |-> IF entry.name # <<>> THEN entry.name[1]
              ELSE IF entry.employee_name # <<>> THEN entry.employee_name[1] ELSE "",
     presentDays |-> IF entry.present_day # <<>> THEN entry.present_day[1]
                     ELSE IF entry.presentDays # <<>> THEN entry.presentDays[1] ELSE 0,
     totalDays |-> IF entry.total_day # <<>> THEN entry.total_day[1]
                   ELSE IF entry.totalDays # <<>> THEN entry.totalDays[1] ELSE 0]

\* the rows the rule keeps: a name that is not empty and totalDays > 0
ValidRows(entries) ==
    LET read == [i \in DOMAIN entries |-> ReadEntry(entries[i], i - 1)]
        valid(row) == row.name # "" /\ row.totalDays > 0
        rows == SelectSeq(read, valid)
    IN [i \in DOMAIN rows |-> [id |-> <<"emp", rows[i].index + 1>>,
                                presentDays |-> rows[i].presentDays,
                                totalDays |-> rows[i].totalDays]]

\* C22: normalizeExtractedData does not throw, and returns the rows whose
\* name is not empty and whose totalDays is above 0, in order, with missing
\* day fields read as 0.
C22_KeepsExactlyValidRows ==
    calcResult # <<>> =>
        /\ ~calcResult[1].threw
        /\ [i \in DOMAIN calcResult[1].entries |->
                [id |-> calcResult[1].entries[i].id,
                 presentDays |-> calcResult[1].entries[i].presentDays,
                 totalDays |-> calcResult[1].entries[i].totalDays]]
              = ValidRows(calcInput.entries)

\* C23: a batch written with presentDays/totalDays gives the same totals and
\* the same employee list as the same batch written with
\* present_day/total_day.
C23_EitherNaming ==
    calcResult # <<>> =>
        /\ AsRead(Written(calcInput.attendanceData, "present_day")) = calcInput.attendanceData
        /\ calcResult[1].camelCase.calc = calcResult[1].calc
        /\ calcResult[1].camelCase.employees = calcResult[1].employees

NoDuplicates(arr) == \A i, j \in DOMAIN arr : i # j => arr[i] # arr[j]

C25_SourcesResolve ==
    \A id \in DOMAIN invoices :
        invoices[id].isMerged =>
            \A i \in DOMAIN invoices[id].sourceInvoices :
                invoices[id].sourceInvoices[i] \in DOMAIN invoices

\* the stored merged invoices that list id among their sources
MergedInto(id) ==
    {m \in DOMAIN invoices :
        invoices[m].isMerged /\ id \in Range(invoices[m].sourceInvoices)}

\* C26: an invoice is a source of at most one stored merged invoice, and a
\* merge request that names a source of a stored merged invoice does not get
\* past the checks of mergeInvoices.
C26_MergedOnce ==
    /\ \A id \in DOMAIN invoices : Cardinality(MergedInto(id)) <= 1
    /\ \A c \in clients :
          (req[c].op = "mergeInvoices" /\ req[c].pc = "count") =>
              \A i \in DOMAIN req[c].body.invoiceIds :
                  MergedInto(req[c].body.invoiceIds[i]) = {}

\* C27: with one request at a time, the number derived from the count is held
\* by no stored invoice, and no creation fails on the unique index.
C27_CountDerivedNumberIsFree ==
    \A c \in clients :
        /\ (req[c].op \in {"createInvoice", "mergeInvoices"} /\ req[c].pc = "save")
              => req[c].invoice.invoiceNumber \notin InvoiceNumbers
        /\ (req[c].op \in {"createInvoice", "mergeInvoices"} /\ req[c].pc = "done")
              => req[c].response.error # "E11000 duplicate key"

\* C28: when mergeInvoices answers with an error, the request has stored no
\* merged invoice.
C28_ErrorMeansNothingStored ==
    [][\A c \in clients :
          (/\ req'[c] # req[c]
           /\ req'[c].op = "mergeInvoices"
           /\ req'[c].pc = "done"
           /\ IsError(req'[c].response))
          => req'[c].savedId \notin DOMAIN invoices']_vars

\* C29: on every invoice stored by createInvoice, the perDayRate of its
\* attendanceData is the rate its base amount and the salaries of its
\* employees were computed with.
C29_RecordedRateIsUsedRate ==
    \A id \in DOMAIN invoices :
        ~invoices[id].isMerged =>
            LET rate == invoices[id].attendanceData.perDayRate
                employees == invoices[id].extractedEmployees
            IN /\ invoices[id].billDetails.baseAmount =
                     invoices[id].attendanceData.totalPresentDays * rate
               /\ \A i \in DOMAIN employees :
                     employees[i].salary =
                         (2 * employees[i].regularDays * rate
                          + employees[i].overtimeDays * rate * invoices[id].overtimeRate2)
                         * 8725

\* the place of a status on the path draft -> approved -> paid
StatusRank(status) ==
    IF status = "draft" THEN 0 ELSE IF status = "approved" THEN 1 ELSE 2

====
